---- MODULE Spec2Model ----
(***************************************************************************)
(* Rate-limit (HTTP 429) handling of PlaywrightApiClient                   *)
(* (tests/api_async/base_api_test.py): the response envelope, the          *)
(* Retry-After parser, the backoff computation, the metrics collector and  *)
(* the retry loop of _make_request / _handle_rate_limit, run by asyncio    *)
(* tasks that share one client.                                            *)
(*                                                                         *)
(* Durations are integers in tenths of a second (Scale tenths = 1 s), so   *)
(* that the jitter factors 0.8 .. 1.2 are exact.                           *)
(***************************************************************************)
EXTENDS Integers, Sequences, FiniteSets, TLC

(* ---------------- bounds of the model ---------------- *)

\* number of asyncio tasks that call verbs of the one shared client
NumTasks == 2

\* number of logical requests issued on the client over its lifetime
MaxRequests == 2

\* cap on the attempt index of a physical attempt the model dispatches; the
\* retry budget keeps the code below it
MaxAttempt == 4

\* largest attempt index the backoff computation is called with on its own
MaxAttemptIndex == 10

(* ---------------- program constants ---------------- *)

Scale == 10

MAX_RETRIES == 3

INITIAL_BACKOFF_SECONDS == 1

MAX_BACKOFF_SECONDS == 30

BACKOFF_MULTIPLIER == 2

ENABLE_JITTER == TRUE

CIRCUIT_BREAKER_THRESHOLD == 5

(* ---------------- inputs ---------------- *)

Tasks == 1..NumTasks

Methods == {"GET", "POST", "PUT", "PATCH", "DELETE"}

\* status codes the server answers with: 2xx, 4xx other than 429, 429, 5xx
Statuses == {200, 404, 429, 500}

\* the factor random.uniform(0.8, 1.2) returns in the client's runs, in
\* tenths: its upper end, the one that carries a wait over the ceiling
JitterFactors == {12}

\* header names under which a response carries its Retry-After value
HeaderNames == {"Retry-After", "retry-after", "RETRY-AFTER", "Retry-after"}

\* a header value is a text (a sequence of characters) or an HTTP-date that
\* strptime accepts, given by its distance in seconds from utcnow()
Text(cs) == [kind |-> "text", chars |-> cs, secs |-> 0]

HttpDate(s) == [kind |-> "date", chars |-> <<>>, secs |-> s]

\* the headers of a response: no Retry-After header, or one under some name
NoHeaders == [has |-> FALSE, name |-> "", value |-> Text(<<>>)]

Header(n, v) == [has |-> TRUE, name |-> n, value |-> v]

\* the headers the server sends with a 429: no Retry-After, or a negative one
ResponseHeaders ==
    { NoHeaders, Header("Retry-After", Text(<<"-", "5">>)) }

\* the headers it sends with any other status
PlainHeaders == {NoHeaders}

(* ---------------- Optional[float] ---------------- *)

None == [some |-> FALSE, val |-> 0]

Some(v) == [some |-> TRUE, val |-> v]

Min(a, b) == IF a <= b THEN a ELSE b

Max(a, b) == IF a >= b THEN a ELSE b

RECURSIVE Pow(_, _)
Pow(b, n) == IF n = 0 THEN 1 ELSE b * Pow(b, n - 1)

(* ---------------- float(str) ---------------- *)

DigitChars == <<"0", "1", "2", "3", "4", "5", "6", "7", "8", "9">>

IsDigit(c) == \E i \in 1..10 : DigitChars[i] = c

DigitVal(c) == (CHOOSE i \in 1..10 : DigitChars[i] = c) - 1

RECURSIVE StripLeft(_)
StripLeft(cs) ==
    IF cs # <<>> /\ Head(cs) = " " THEN StripLeft(Tail(cs)) ELSE cs

RECURSIVE StripRight(_)
StripRight(cs) ==
    IF cs # <<>> /\ cs[Len(cs)] = " "
    THEN StripRight(SubSeq(cs, 1, Len(cs) - 1)) ELSE cs

RECURSIVE DigitsValue(_, _)
DigitsValue(cs, acc) ==
    IF cs = <<>> THEN acc
    ELSE DigitsValue(Tail(cs), acc * 10 + DigitVal(Head(cs)))

\* float(s) for a text of digits, sign and blanks: surrounding blanks are
\* dropped, one leading sign is accepted, the rest must be one or more digits;
\* anything else is a ValueError (ok = FALSE)
ParseFloat(cs) ==
    LET body   == StripRight(StripLeft(cs))
        signed == body # <<>> /\ Head(body) \in {"-", "+"}
        digits == IF signed THEN Tail(body) ELSE body
        valid  == digits # <<>> /\ \A i \in 1..Len(digits) : IsDigit(digits[i])
        mag    == IF valid THEN DigitsValue(digits, 0) ELSE 0
    IN  [ok  |-> valid,
         val |-> IF signed /\ Head(body) = "-" THEN 0 - mag ELSE mag]

(* ---------------- ApiResponse ---------------- *)

\* dict.get(name, default) on the response headers
HeadersGet(headers, name, default) ==
    IF headers.has /\ headers.name = name THEN Some(headers.value) ELSE default

\* ApiResponse.get_retry_after_seconds, in seconds
get_retry_after_seconds(headers) ==
    LET retry_after ==
            HeadersGet(headers, "Retry-After",
                       HeadersGet(headers, "retry-after", None))
    IN  IF ~retry_after.some THEN None
        ELSE IF retry_after.val.kind = "text"
                /\ retry_after.val.chars = <<>> THEN None
        ELSE IF retry_after.val.kind = "text"
        THEN LET f == ParseFloat(retry_after.val.chars)
             IN  IF f.ok THEN Some(f.val) ELSE None
        ELSE Some(Max(0, retry_after.val.secs))

NoResponse ==
    [status_code |-> 0, headers |-> NoHeaders, retry_count |-> 0,
     was_rate_limited |-> FALSE]

\* mutants of ApiResponse: the retry count left at its default; the
\* rate-limited flag defaulting to True
ApiResponse_NoRetryCount(status, headers, attempt) ==
    [status_code |-> status, headers |-> headers, retry_count |-> 0,
     was_rate_limited |-> FALSE]

ApiResponse_FlagSet(status, headers, attempt) ==
    [status_code |-> status, headers |-> headers, retry_count |-> attempt,
     was_rate_limited |-> TRUE]

\* ApiResponse(status_code=..., headers=..., retry_count=attempt)
ApiResponse(status, headers, attempt) ==
    [status_code |-> status, headers |-> headers, retry_count |-> attempt,
     was_rate_limited |-> FALSE]

\* mutant of MarkRateLimited: the flag is not set on the terminal 429
MarkRateLimited_Forgotten(response) == response

\* response.was_rate_limited = True
MarkRateLimited(response) == [response EXCEPT !.was_rate_limited = TRUE]

(* ---------------- RateLimitMetrics ---------------- *)

NewMetrics ==
    [total_rate_limited |-> 0, total_retries |-> 0,
     total_backoff_seconds |-> 0, max_backoff_seconds |-> 0,
     rate_limit_timestamps |-> <<>>]

\* mutants of record_rate_limit: the largest backoff is overwritten by the
\* latest; the event counter is not incremented
record_rate_limit_MaxOverwritten(m, backoff_seconds) ==
    [m EXCEPT !.total_rate_limited = @ + 1,
              !.total_backoff_seconds = @ + backoff_seconds,
              !.max_backoff_seconds = backoff_seconds,
              !.rate_limit_timestamps = Append(@, Len(@) + 1)]

record_rate_limit_NoCount(m, backoff_seconds) ==
    [m EXCEPT !.total_backoff_seconds = @ + backoff_seconds,
              !.max_backoff_seconds = Max(@, backoff_seconds),
              !.rate_limit_timestamps = Append(@, Len(@) + 1)]

\* RateLimitMetrics.record_rate_limit; the timestamp appended is the ordinal
\* of the event on the client
record_rate_limit(m, backoff_seconds) ==
    [m EXCEPT !.total_rate_limited = @ + 1,
              !.total_backoff_seconds = @ + backoff_seconds,
              !.max_backoff_seconds = Max(@, backoff_seconds),
              !.rate_limit_timestamps = Append(@, Len(@) + 1)]

\* mutants of record_retry: the wrong counter is incremented; the increment
\* is lost
record_retry_Lost(m) == m

record_retry_WrongCounter(m) == [m EXCEPT !.total_rate_limited = @ + 1]

\* RateLimitMetrics.record_retry
record_retry(m) == [m EXCEPT !.total_retries = @ + 1]

(* ---------------- backoff ---------------- *)

\* mutants of CalculateBackoff: the Retry-After value is not capped; the
\* multiplier multiplies the attempt index; the Retry-After value is ignored
CalculateBackoff_HintUncapped(attempt, retry_after, jitter, enable_jitter) ==
    LET base == IF retry_after.some
                THEN retry_after.val
                ELSE Min(INITIAL_BACKOFF_SECONDS
                            * Pow(BACKOFF_MULTIPLIER, attempt),
                         MAX_BACKOFF_SECONDS)
    IN  IF enable_jitter THEN base * jitter ELSE base * Scale

CalculateBackoff_Linear(attempt, retry_after, jitter, enable_jitter) ==
    LET base == IF retry_after.some
                THEN Min(retry_after.val, MAX_BACKOFF_SECONDS)
                ELSE Min(INITIAL_BACKOFF_SECONDS
                            * BACKOFF_MULTIPLIER * attempt,
                         MAX_BACKOFF_SECONDS)
    IN  IF enable_jitter THEN base * jitter ELSE base * Scale

CalculateBackoff_HintIgnored(attempt, retry_after, jitter, enable_jitter) ==
    LET base == Min(INITIAL_BACKOFF_SECONDS
                        * Pow(BACKOFF_MULTIPLIER, attempt),
                    MAX_BACKOFF_SECONDS)
    IN  IF enable_jitter THEN base * jitter ELSE base * Scale

\* the wait _handle_rate_limit computes, in tenths of a second, for the
\* attempt index, the parsed Retry-After value, the jitter factor drawn and
\* the ENABLE_JITTER setting of the instance
CalculateBackoff(attempt, retry_after, jitter, enable_jitter) ==
    LET base == IF retry_after.some
                THEN Min(retry_after.val, MAX_BACKOFF_SECONDS)
                ELSE Min(INITIAL_BACKOFF_SECONDS
                            * Pow(BACKOFF_MULTIPLIER, attempt),
                         MAX_BACKOFF_SECONDS)
    IN  IF enable_jitter THEN base * jitter ELSE base * Scale

\* the same with the class default of ENABLE_JITTER
ComputeBackoff(attempt, retry_after, jitter) ==
    CalculateBackoff(attempt, retry_after, jitter, ENABLE_JITTER)

\* mutants of RateLimitOutcome: the breaker check is missing; the
\* retry-budget check compares with > ; the two early returns are missing
RateLimitOutcome_NoBreaker(consecutive, attempt) ==
    IF attempt >= MAX_RETRIES THEN "exhausted" ELSE "retry"

RateLimitOutcome_OffByOne(consecutive, attempt) ==
    IF consecutive >= CIRCUIT_BREAKER_THRESHOLD THEN "breaker"
    ELSE IF attempt > MAX_RETRIES THEN "exhausted"
    ELSE "retry"

RateLimitOutcome_NoReturn(consecutive, attempt) == "retry"

\* what _handle_rate_limit does with a 429 once the counter is incremented:
\* the breaker check, then the retry-budget check, else a retry
RateLimitOutcome(consecutive, attempt) ==
    IF consecutive >= CIRCUIT_BREAKER_THRESHOLD THEN "breaker"
    ELSE IF attempt >= MAX_RETRIES THEN "exhausted"
    ELSE "retry"

(* ---------------- state ---------------- *)

VARIABLES
    consecutive_rate_limits,  \* PlaywrightApiClient.consecutive_rate_limits
    metrics,                  \* PlaywrightApiClient.metrics
    pc,                       \* where each task is in its logical request
    allow,                    \* allow_rate_limit_retry of the request
    attempt,                  \* the attempt argument of _make_request
    backoff_seconds,          \* the wait being slept, in tenths
    result,                   \* the envelope the verb returned
    statuses,                 \* statuses received by the logical request
    requests,                 \* logical requests started on the client
    received429,              \* 429 responses the client has received
    retriesIssued,            \* retry attempts the client has dispatched
    maxWaitApplied,           \* largest wait passed to wait_for_timeout
    probe                     \* a call of a pure operation: inputs, result

vars ==
    <<consecutive_rate_limits, metrics, pc, allow, attempt,
      backoff_seconds, result, statuses, requests, received429,
      retriesIssued, maxWaitApplied, probe>>

\* no pure operation is being called
NoProbe == [op |-> "none"]

\* a new client: PlaywrightApiClient.__init__
NewClient ==
    /\ consecutive_rate_limits = 0
    /\ metrics = NewMetrics
    /\ pc = [t \in Tasks |-> "idle"]
    /\ allow = [t \in Tasks |-> TRUE]
    /\ attempt = [t \in Tasks |-> 0]
    /\ backoff_seconds = [t \in Tasks |-> 0]
    /\ result = [t \in Tasks |-> NoResponse]
    /\ statuses = [t \in Tasks |-> <<>>]
    /\ requests = 0
    /\ received429 = 0
    /\ retriesIssued = 0
    /\ maxWaitApplied = 0

Init == NewClient /\ probe = NoProbe

Finished(t) == pc[t] \in {"idle", "returned", "raised"}

Quiescent == \A t \in Tasks : Finished(t)

(* ---------------- operations ---------------- *)

\* mutant of Dispatch: a new logical request resets the counter
Dispatch_CounterReset(t, a) ==
    /\ Finished(t)
    /\ requests' = requests + 1
    /\ pc' = [pc EXCEPT ![t] = "fetch"]
    /\ allow' = [allow EXCEPT ![t] = a]
    /\ attempt' = [attempt EXCEPT ![t] = 0]
    /\ backoff_seconds' = [backoff_seconds EXCEPT ![t] = 0]
    /\ result' = [result EXCEPT ![t] = NoResponse]
    /\ statuses' = [statuses EXCEPT ![t] = <<>>]
    /\ consecutive_rate_limits' = 0
    /\ UNCHANGED <<metrics, received429, retriesIssued, maxWaitApplied>>
    /\ UNCHANGED probe

\* _make_request(attempt = 0) of a new logical request, up to its await of
\* page.fetch
Dispatch(t, a) ==
    /\ Finished(t)
    /\ requests' = requests + 1
    /\ pc' = [pc EXCEPT ![t] = "fetch"]
    /\ allow' = [allow EXCEPT ![t] = a]
    /\ attempt' = [attempt EXCEPT ![t] = 0]
    /\ backoff_seconds' = [backoff_seconds EXCEPT ![t] = 0]
    /\ result' = [result EXCEPT ![t] = NoResponse]
    /\ statuses' = [statuses EXCEPT ![t] = <<>>]
    /\ UNCHANGED <<consecutive_rate_limits, metrics, received429,
                   retriesIssued, maxWaitApplied>>
    /\ UNCHANGED probe

\* a verb is called, while the client is given requests; the method m only
\* names the verb in the fetch options
Call(t, m, a) ==
    /\ m \in Methods
    /\ requests < MaxRequests
    /\ Dispatch(t, a)

\* PlaywrightApiClient.get
get(t) == Call(t, "GET", TRUE)

\* PlaywrightApiClient.post
post(t) == Call(t, "POST", TRUE)

\* PlaywrightApiClient.put
put(t) == Call(t, "PUT", TRUE)

\* PlaywrightApiClient.patch
patch(t) == Call(t, "PATCH", TRUE)

\* PlaywrightApiClient.delete
delete(t) == Call(t, "DELETE", TRUE)

\* mutants of Respond: the counter is reset on a 2xx answer only; no answer
\* is handled while some request is in its backoff wait
Respond_ResetOnSuccess(t) ==
    /\ pc[t] = "fetch"
    /\ \E s \in Statuses \ {429}, h \in PlainHeaders :
        /\ statuses' = [statuses EXCEPT ![t] = Append(@, s)]
        /\ consecutive_rate_limits' =
                IF s < 300 THEN 0 ELSE consecutive_rate_limits
        /\ result' = [result EXCEPT ![t] = ApiResponse(s, h, attempt[t])]
    /\ pc' = [pc EXCEPT ![t] = "returned"]
    /\ UNCHANGED <<metrics, allow, attempt, backoff_seconds, requests,
                   received429, retriesIssued, maxWaitApplied>>
    /\ UNCHANGED probe

Respond_Blocked(t) ==
    /\ pc[t] = "fetch"
    /\ \A u \in Tasks : pc[u] # "wait"
    /\ \E s \in Statuses \ {429}, h \in PlainHeaders :
        /\ statuses' = [statuses EXCEPT ![t] = Append(@, s)]
        /\ consecutive_rate_limits' = 0
        /\ result' = [result EXCEPT ![t] = ApiResponse(s, h, attempt[t])]
    /\ pc' = [pc EXCEPT ![t] = "returned"]
    /\ UNCHANGED <<metrics, allow, attempt, backoff_seconds, requests,
                   received429, retriesIssued, maxWaitApplied>>
    /\ UNCHANGED probe

\* page.fetch answers with a status other than 429: the counter is reset and
\* the envelope returned
Respond(t) ==
    /\ pc[t] = "fetch"
    /\ \E s \in Statuses \ {429}, h \in PlainHeaders :
        /\ statuses' = [statuses EXCEPT ![t] = Append(@, s)]
        /\ consecutive_rate_limits' = 0
        /\ result' = [result EXCEPT ![t] = ApiResponse(s, h, attempt[t])]
    /\ pc' = [pc EXCEPT ![t] = "returned"]
    /\ UNCHANGED <<metrics, allow, attempt, backoff_seconds, requests,
                   received429, retriesIssued, maxWaitApplied>>
    /\ UNCHANGED probe

\* page.fetch answers 429: _handle_rate_limit up to its return or its await
\* of wait_for_timeout
RateLimited(t) ==
    /\ pc[t] = "fetch"
    /\ allow[t]
    /\ \E h \in ResponseHeaders, jitter \in JitterFactors :
        LET response == ApiResponse(429, h, attempt[t])
            counter  == consecutive_rate_limits + 1
            recorded == record_rate_limit(metrics, 0)
            outcome  == RateLimitOutcome(counter, attempt[t])
            wait     == ComputeBackoff(attempt[t],
                                       get_retry_after_seconds(h), jitter)
        IN  /\ statuses' = [statuses EXCEPT ![t] = Append(@, 429)]
            /\ received429' = received429 + 1
            /\ consecutive_rate_limits' = counter
            /\ IF outcome = "retry"
               THEN /\ metrics' =
                        [record_retry(recorded) EXCEPT
                            !.total_backoff_seconds = @ + wait]
                    /\ backoff_seconds' = [backoff_seconds EXCEPT ![t] = wait]
                    /\ maxWaitApplied' = Max(maxWaitApplied, wait)
                    /\ pc' = [pc EXCEPT ![t] = "wait"]
                    /\ UNCHANGED result
               ELSE /\ metrics' = recorded
                    /\ result' = [result EXCEPT ![t] = MarkRateLimited(response)]
                    /\ pc' = [pc EXCEPT ![t] = "returned"]
                    /\ UNCHANGED <<backoff_seconds, maxWaitApplied>>
    /\ UNCHANGED <<allow, attempt, requests, retriesIssued>>
    /\ UNCHANGED probe

\* mutants of TransportFailure: the failure resets the counter as an answer
\* would; the failed attempt is tried again
TransportFailure_CounterReset(t) ==
    /\ pc[t] = "fetch"
    /\ pc' = [pc EXCEPT ![t] = "raised"]
    /\ consecutive_rate_limits' = 0
    /\ UNCHANGED <<metrics, allow, attempt, backoff_seconds, result,
                   statuses, requests, received429, retriesIssued,
                   maxWaitApplied>>
    /\ UNCHANGED probe

TransportFailure_Retried(t) ==
    /\ pc[t] = "fetch"
    /\ attempt[t] < MaxAttempt
    /\ attempt' = [attempt EXCEPT ![t] = @ + 1]
    /\ UNCHANGED <<consecutive_rate_limits, metrics, pc, allow,
                   backoff_seconds, result, statuses, requests, received429,
                   retriesIssued, maxWaitApplied>>
    /\ UNCHANGED probe

\* page.fetch raises: the except clause of _make_request (of every level of
\* the recursion) re-raises to the caller
TransportFailure(t) ==
    /\ pc[t] = "fetch"
    /\ pc' = [pc EXCEPT ![t] = "raised"]
    /\ UNCHANGED <<consecutive_rate_limits, metrics, allow, attempt,
                   backoff_seconds, result, statuses, requests, received429,
                   retriesIssued, maxWaitApplied>>
    /\ UNCHANGED probe

\* wait_for_timeout completes: _make_request(attempt + 1) runs up to its
\* await of page.fetch
Retry(t) ==
    /\ pc[t] = "wait"
    /\ attempt[t] < MaxAttempt
    /\ attempt' = [attempt EXCEPT ![t] = @ + 1]
    /\ backoff_seconds' = [backoff_seconds EXCEPT ![t] = 0]
    /\ retriesIssued' = retriesIssued + 1
    /\ pc' = [pc EXCEPT ![t] = "fetch"]
    /\ UNCHANGED <<consecutive_rate_limits, metrics, allow, result,
                   statuses, requests, received429, maxWaitApplied>>
    /\ UNCHANGED probe

Step(t) == Respond(t) \/ RateLimited(t) \/ TransportFailure(t) \/ Retry(t)

Next ==
    \E t \in Tasks :
        \/ get(t)
        \/ post(t)
        \/ put(t)
        \/ patch(t)
        \/ delete(t)
        \/ Respond(t)
        \/ RateLimited(t)
        \/ TransportFailure(t)
        \/ Retry(t)

\* tasks run concurrently on the shared client
Spec == Init /\ [][Next]_vars

\* the same, where every physical attempt and every backoff wait completes
FairSpec == Spec /\ \A t \in Tasks : WF_vars(Step(t))

(* ---------------- verbs with allow_rate_limit_retry ---------------- *)

\* get(endpoint, allow_rate_limit_retry=...)
get_allow(t) == \E a \in BOOLEAN : Call(t, "GET", a)

\* post(endpoint, data, allow_rate_limit_retry=...)
post_allow(t) == \E a \in BOOLEAN : Call(t, "POST", a)

\* put(endpoint, data, allow_rate_limit_retry=...)
put_allow(t) == \E a \in BOOLEAN : Call(t, "PUT", a)

\* patch(endpoint, data, allow_rate_limit_retry=...)
patch_allow(t) == \E a \in BOOLEAN : Call(t, "PATCH", a)

\* delete(endpoint, allow_rate_limit_retry=...)
delete_allow(t) == \E a \in BOOLEAN : Call(t, "DELETE", a)

\* mutant of NotRetriedEnvelope: the retry branch is entered despite the flag
NotRetriedEnvelope_Retried(headers, att) ==
    [ApiResponse(429, headers, att + 1) EXCEPT !.was_rate_limited = TRUE]

\* the envelope of a 429 that is not retried: retry_count 0, rate-limited
NotRetriedEnvelope(headers, att) ==
    [ApiResponse(429, headers, 0) EXCEPT !.was_rate_limited = TRUE]

\* page.fetch answers 429 to a request made with the flag false: the retry
\* branch is skipped, the counter and the metrics are not touched
NotRetried(t) ==
    /\ pc[t] = "fetch"
    /\ ~allow[t]
    /\ \E h \in ResponseHeaders :
        result' = [result EXCEPT ![t] = NotRetriedEnvelope(h, attempt[t])]
    /\ statuses' = [statuses EXCEPT ![t] = Append(@, 429)]
    /\ received429' = received429 + 1
    /\ pc' = [pc EXCEPT ![t] = "returned"]
    /\ UNCHANGED <<consecutive_rate_limits, metrics, allow, attempt,
                   backoff_seconds, requests, retriesIssued, maxWaitApplied>>
    /\ UNCHANGED probe

FlagNext ==
    \E t \in Tasks :
        \/ get_allow(t)
        \/ post_allow(t)
        \/ put_allow(t)
        \/ patch_allow(t)
        \/ delete_allow(t)
        \/ Respond(t)
        \/ RateLimited(t)
        \/ NotRetried(t)
        \/ TransportFailure(t)
        \/ Retry(t)

FlagSpec == Init /\ [][FlagNext]_vars

(* ---------------- the backoff computation on its own ---------------- *)

\* the whole range of random.uniform(0.8, 1.2), in tenths
JitterRange == 8..12

\* Retry-After headers of a 429: none; 0, 5, 30, 45, 99999 and -5 seconds;
\* a text that is no number; a date 20 s ahead and one 10 s back
BackoffHeaders ==
    {NoHeaders} \cup
    { Header("Retry-After", v) :
        v \in { Text(<<"0">>), Text(<<"5">>), Text(<<"3", "0">>),
                Text(<<"4", "5">>), Text(<<"9", "9", "9", "9", "9">>),
                Text(<<"-", "5">>), Text(<<"x">>),
                HttpDate(20), HttpDate(-10) } }

\* a 429 at some attempt index, with some headers, on an instance with jitter
\* enabled or disabled; nothing computed yet
BackoffInit ==
    /\ NewClient
    /\ probe \in [op : {"backoff"}, attempt : 0..MaxAttemptIndex,
                  headers : BackoffHeaders, enable_jitter : BOOLEAN,
                  jitter : {Scale}, steps : {0}, prev : {0}, wait : {0}]

\* lines 394-409 of _handle_rate_limit for that 429
BackoffFirst ==
    /\ probe.op = "backoff"
    /\ probe.steps = 0
    /\ \E j \in JitterRange :
        probe' = [probe EXCEPT
            !.jitter = j,
            !.steps = 1,
            !.wait = CalculateBackoff(probe.attempt,
                        get_retry_after_seconds(probe.headers), j,
                        probe.enable_jitter)]
    /\ UNCHANGED <<consecutive_rate_limits, metrics, pc, allow, attempt,
                   backoff_seconds, result, statuses, requests, received429,
                   retriesIssued, maxWaitApplied>>

\* the same lines for a 429 with the same headers at the next attempt index
BackoffNext ==
    /\ probe.op = "backoff"
    /\ probe.steps >= 1
    /\ probe.attempt < MaxAttemptIndex
    /\ \E j \in JitterRange :
        probe' = [probe EXCEPT
            !.attempt = @ + 1,
            !.jitter = j,
            !.steps = 2,
            !.prev = probe.wait,
            !.wait = CalculateBackoff(probe.attempt + 1,
                        get_retry_after_seconds(probe.headers), j,
                        probe.enable_jitter)]
    /\ UNCHANGED <<consecutive_rate_limits, metrics, pc, allow, attempt,
                   backoff_seconds, result, statuses, requests, received429,
                   retriesIssued, maxWaitApplied>>

BackoffStep == BackoffFirst \/ BackoffNext

BackoffSpec == BackoffInit /\ [][BackoffStep]_vars

(* ---------------- the Retry-After parser on its own ---------------- *)

\* header values: delta-seconds, an empty value, negative values, texts that
\* are no number, dates ahead of and behind utcnow()
ParserValues ==
    { Text(<<>>), Text(<<"0">>), Text(<<"5">>), Text(<<"3", "0">>),
      Text(<<"4", "5">>), Text(<<"1", "2", "0">>),
      Text(<<"9", "9", "9", "9", "9">>), Text(<<"-", "5">>),
      Text(<<"-", "1", "2", "0">>), Text(<<"x">>), Text(<<"5", "s">>),
      Text(<<"-">>), HttpDate(20), HttpDate(0), HttpDate(-10) }

ParserHeaders ==
    {NoHeaders} \cup { Header(n, v) : n \in HeaderNames, v \in ParserValues }

\* an envelope with some headers; get_retry_after_seconds not called yet
ParserInit ==
    /\ NewClient
    /\ probe \in [op : {"parse"}, headers : ParserHeaders, done : {FALSE},
                  out : {None}]

\* response.get_retry_after_seconds()
ParserCall ==
    /\ probe.op = "parse"
    /\ ~probe.done
    /\ probe' = [probe EXCEPT !.done = TRUE,
                              !.out = get_retry_after_seconds(probe.headers)]
    /\ UNCHANGED <<consecutive_rate_limits, metrics, pc, allow, attempt,
                   backoff_seconds, result, statuses, requests, received429,
                   retriesIssued, maxWaitApplied>>

ParserSpec == ParserInit /\ [][ParserCall]_vars

(* ---------------- status classification on its own ---------------- *)

StatusCodes == 100..599

\* ApiResponse.is_success
is_success(status_code) == 200 <= status_code /\ status_code < 300

\* mutant of is_client_error: the upper end of the range included
is_client_error_Inclusive(status_code) ==
    400 <= status_code /\ status_code <= 500

\* ApiResponse.is_client_error
is_client_error(status_code) == 400 <= status_code /\ status_code < 500

\* ApiResponse.is_server_error
is_server_error(status_code) == 500 <= status_code /\ status_code < 600

\* ApiResponse.is_rate_limited
is_rate_limited(status_code) == status_code = 429

\* an envelope of some status; no predicate called yet
ClassifyInit ==
    /\ NewClient
    /\ probe \in [op : {"classify"}, status_code : StatusCodes,
                  done : {FALSE}, success : {FALSE}, client_error : {FALSE},
                  server_error : {FALSE}, rate_limited : {FALSE}]

\* the four predicates called on the envelope
ClassifyCall ==
    /\ probe.op = "classify"
    /\ ~probe.done
    /\ probe' = [probe EXCEPT
            !.done = TRUE,
            !.success = is_success(probe.status_code),
            !.client_error = is_client_error(probe.status_code),
            !.server_error = is_server_error(probe.status_code),
            !.rate_limited = is_rate_limited(probe.status_code)]
    /\ UNCHANGED <<consecutive_rate_limits, metrics, pc, allow, attempt,
                   backoff_seconds, result, statuses, requests, received429,
                   retriesIssued, maxWaitApplied>>

ClassifySpec == ClassifyInit /\ [][ClassifyCall]_vars

(* ---------------- ResponseValidator chains ---------------- *)

\* longest chain of assertions made on one validator
MaxChain == 2

\* str.lower() on the letters the bodies use
Lower(c) == IF c = "A" THEN "a" ELSE IF c = "B" THEN "b" ELSE c

LowerAll(cs) == [i \in 1..Len(cs) |-> Lower(cs[i])]

\* sub in cs, for two strings
Contains(sub, cs) ==
    \E i \in 0..Len(cs) :
        /\ i + Len(sub) <= Len(cs)
        /\ \A j \in 1..Len(sub) : cs[i + j] = sub[j]

BodyKeys == {"id", "name"}

Absent == [present |-> FALSE, chars |-> <<>>]

Field(cs) == [present |-> TRUE, chars |-> cs]

\* response bodies: a JSON object with its fields, or a JSON array
DictBody(id, name) ==
    [is_list |-> FALSE, len |-> 0, fields |-> [k \in BodyKeys |->
        IF k = "id" THEN id ELSE name]]

ListBody(n) ==
    [is_list |-> TRUE, len |-> n, fields |-> [k \in BodyKeys |-> Absent]]

Bodies ==
    { DictBody(Absent, Absent), DictBody(Field(<<"A", "1">>), Absent),
      DictBody(Field(<<"b", "1">>), Field(<<"A", "b">>)),
      ListBody(0), ListBody(2) }

\* the envelopes a validator is built on
ValidatedResponses ==
    [status_code : {200, 429, 500}, body : Bodies,
     headers : {NoHeaders, Header("retry-after", Text(<<"5">>))},
     elapsed_ms : {50, 500}]

\* key in self.response.body (an array of objects holds no string)
HasKey(response, key) ==
    ~response.body.is_list /\ response.body.fields[key].present

\* the assertions a chain is made of, with their arguments
Assertions ==
    { [m |-> "assert_status_code", n |-> 200, key |-> "", chars |-> <<>>],
      [m |-> "assert_status_code", n |-> 429, key |-> "", chars |-> <<>>],
      [m |-> "assert_status_2xx", n |-> 0, key |-> "", chars |-> <<>>],
      [m |-> "assert_status_4xx", n |-> 0, key |-> "", chars |-> <<>>],
      [m |-> "assert_status_5xx", n |-> 0, key |-> "", chars |-> <<>>],
      [m |-> "assert_not_rate_limited", n |-> 0, key |-> "", chars |-> <<>>],
      [m |-> "assert_rate_limited", n |-> 0, key |-> "", chars |-> <<>>],
      [m |-> "assert_has_key", n |-> 0, key |-> "id", chars |-> <<>>],
      [m |-> "assert_has_keys", n |-> 0, key |-> "", chars |-> <<>>],
      [m |-> "assert_key_equals", n |-> 0, key |-> "id",
       chars |-> <<"A", "1">>],
      [m |-> "assert_key_contains", n |-> 0, key |-> "name",
       chars |-> <<"B">>],
      [m |-> "assert_is_list", n |-> 0, key |-> "", chars |-> <<>>],
      [m |-> "assert_list_length", n |-> 2, key |-> "", chars |-> <<>>],
      [m |-> "assert_list_length_gte", n |-> 1, key |-> "", chars |-> <<>>],
      [m |-> "assert_header_present", n |-> 0, key |-> "Retry-After",
       chars |-> <<>>],
      [m |-> "assert_header_present", n |-> 0, key |-> "retry-after",
       chars |-> <<>>],
      [m |-> "assert_response_time_ms", n |-> 100, key |-> "",
       chars |-> <<>>] }

\* the condition of the assert statement(s) of method a.m; the list
\* assertions are called without a key, assert_has_keys with all of BodyKeys
Condition(a, response) ==
    CASE a.m = "assert_status_code" -> response.status_code = a.n
      [] a.m = "assert_status_2xx" -> is_success(response.status_code)
      [] a.m = "assert_status_4xx" -> is_client_error(response.status_code)
      [] a.m = "assert_status_5xx" -> is_server_error(response.status_code)
      [] a.m = "assert_not_rate_limited" ->
            ~is_rate_limited(response.status_code)
      [] a.m = "assert_rate_limited" -> is_rate_limited(response.status_code)
      [] a.m = "assert_has_key" -> HasKey(response, a.key)
      [] a.m = "assert_has_keys" ->
            \A key \in BodyKeys : HasKey(response, key)
      [] a.m = "assert_key_equals" ->
            /\ HasKey(response, a.key)
            /\ response.body.fields[a.key].chars = a.chars
      [] a.m = "assert_key_contains" ->
            /\ HasKey(response, a.key)
            /\ Contains(LowerAll(a.chars),
                        LowerAll(response.body.fields[a.key].chars))
      [] a.m = "assert_is_list" -> response.body.is_list
      [] a.m = "assert_list_length" ->
            response.body.is_list /\ response.body.len = a.n
      [] a.m = "assert_list_length_gte" ->
            response.body.is_list /\ response.body.len >= a.n
      [] a.m = "assert_header_present" ->
            response.headers.has /\ response.headers.name = a.key
      [] a.m = "assert_response_time_ms" -> response.elapsed_ms <= a.n

\* ResponseValidator.__init__
ResponseValidator(response) == [response |-> response]

\* mutant of Evaluate: the assert statement has no effect
Evaluate_NeverRaises(self, a) == [raised |-> FALSE, ret |-> self]

\* one assertion method called on validator self: the assert statement
\* raises, or the method returns self
Evaluate(self, a) ==
    IF Condition(a, self.response)
    THEN [raised |-> FALSE, ret |-> self]
    ELSE [raised |-> TRUE, ret |-> self]

Chains ==
    UNION { [1..n -> Assertions] : n \in 1..MaxChain }

\* ResponseValidator(response) built, no assertion of the chain called yet;
\* current is the object the next call of the chain is made on
ValidatorInit ==
    /\ NewClient
    /\ \E response \in ValidatedResponses, chain \in Chains :
          probe = [op |-> "validate", chain |-> chain,
                   validator |-> ResponseValidator(response),
                   current |-> ResponseValidator(response),
                   evaluated |-> 0, state |-> "running"]

\* the next call of the chain; a raised AssertionError leaves the expression
ValidatorStep ==
    /\ probe.op = "validate"
    /\ probe.state = "running"
    /\ LET r == Evaluate(probe.current, probe.chain[probe.evaluated + 1])
       IN  probe' = [probe EXCEPT
                !.evaluated = @ + 1,
                !.current = r.ret,
                !.state = IF r.raised THEN "failed"
                          ELSE IF probe.evaluated + 1 = Len(probe.chain)
                          THEN "passed" ELSE "running"]
    /\ UNCHANGED <<consecutive_rate_limits, metrics, pc, allow, attempt,
                   backoff_seconds, result, statuses, requests, received429,
                   retriesIssued, maxWaitApplied>>

ValidatorSpec == ValidatorInit /\ [][ValidatorStep]_vars

(* ---------------- request headers on their own ---------------- *)

RequestHeaderNames == {"Content-Type", "If-Match", "X-Trace"}

\* a header the mapping does not hold
Missing == "<missing>"

RequestHeaderValues == {"application/json", "text/plain", "W/1"}

\* the headers argument of a verb: None, or a dict over the names above
CallerHeaders ==
    [given : {TRUE},
     dict : [RequestHeaderNames -> RequestHeaderValues \cup {Missing}]]
    \cup {[given |-> FALSE, dict |-> [n \in RequestHeaderNames |-> Missing]]}

\* the defaults of the client
DefaultHeaders ==
    [n \in RequestHeaderNames |->
        IF n = "Content-Type" THEN "application/json" ELSE Missing]

\* request_headers = headers or {}; request_headers["Content-Type"] = ...
request_headers(headers) ==
    [(IF headers.given THEN headers.dict
      ELSE [n \in RequestHeaderNames |-> Missing])
        EXCEPT !["Content-Type"] = "application/json"]

\* a verb is about to be called with some headers argument
HeadersInit ==
    /\ NewClient
    /\ probe \in [op : {"headers"}, headers : CallerHeaders, done : {FALSE},
                  sent : {[n \in RequestHeaderNames |-> Missing]}]

\* _make_request up to its fetch_options
PrepareHeaders ==
    /\ probe.op = "headers"
    /\ ~probe.done
    /\ probe' = [probe EXCEPT !.done = TRUE,
                              !.sent = request_headers(probe.headers)]
    /\ UNCHANGED <<consecutive_rate_limits, metrics, pc, allow, attempt,
                   backoff_seconds, result, statuses, requests, received429,
                   retriesIssued, maxWaitApplied>>

HeadersSpec == HeadersInit /\ [][PrepareHeaders]_vars

(* ---------------- RateLimitMetrics on its own ---------------- *)

\* calls made on one collector
MaxRecords == 4

\* backoff_seconds arguments, in tenths of a second
RecordedBackoffs == {0, 10, 25}

\* RateLimitMetrics(): m is the collector, prev its value before the last
\* call, last the last call and b its argument
MetricsInit ==
    /\ NewClient
    /\ probe = [op |-> "metrics", m |-> NewMetrics, prev |-> NewMetrics,
                last |-> "new", b |-> 0, calls |-> 0]

\* m.record_rate_limit(b)
RecordRateLimit ==
    /\ probe.op = "metrics"
    /\ probe.calls < MaxRecords
    /\ \E b \in RecordedBackoffs :
        probe' = [probe EXCEPT !.m = record_rate_limit(probe.m, b),
                               !.prev = probe.m,
                               !.last = "record_rate_limit",
                               !.b = b,
                               !.calls = @ + 1]
    /\ UNCHANGED <<consecutive_rate_limits, metrics, pc, allow, attempt,
                   backoff_seconds, result, statuses, requests, received429,
                   retriesIssued, maxWaitApplied>>

\* m.record_retry()
RecordRetry ==
    /\ probe.op = "metrics"
    /\ probe.calls < MaxRecords
    /\ probe' = [probe EXCEPT !.m = record_retry(probe.m),
                              !.prev = probe.m,
                              !.last = "record_retry",
                              !.b = 0,
                              !.calls = @ + 1]
    /\ UNCHANGED <<consecutive_rate_limits, metrics, pc, allow, attempt,
                   backoff_seconds, result, statuses, requests, received429,
                   retriesIssued, maxWaitApplied>>

MetricsNext == RecordRateLimit \/ RecordRetry

MetricsSpec == MetricsInit /\ [][MetricsNext]_vars

(* ---------------- one call site, request after request ---------------- *)

\* logical requests the session makes
MaxSessionRequests == 3

\* the task of the one call site
SessionTask == CHOOSE t \in Tasks : TRUE

\* the call site awaits client.get(...) again
SessionGet ==
    /\ requests < MaxSessionRequests
    /\ Dispatch(SessionTask, TRUE)

SessionNext ==
    \/ SessionGet
    \/ Respond(SessionTask)
    \/ RateLimited(SessionTask)
    \/ TransportFailure(SessionTask)
    \/ Retry(SessionTask)

SessionSpec == Init /\ [][SessionNext]_vars

(* ---------------- properties ---------------- *)

Last(q) == q[Len(q)]

All429(q) == \A i \in 1..Len(q) : q[i] = 429

\* physical attempts the task's logical request has dispatched so far
PhysicalAttempts(t) == IF pc[t] = "idle" THEN 0 ELSE attempt[t] + 1

\* C1: every returned envelope has retry_count <= MAX_RETRIES, and a logical
\* request never dispatches more than MAX_RETRIES + 1 physical attempts
RetryBudgetRespected ==
    \A t \in Tasks :
        /\ PhysicalAttempts(t) <= MAX_RETRIES + 1
        /\ Len(statuses[t]) <= MAX_RETRIES + 1
        /\ pc[t] = "returned" => result[t].retry_count <= MAX_RETRIES

\* a request returned after using its whole retry budget
BudgetUsedUp ==
    \E t \in Tasks :
        /\ pc[t] = "returned"
        /\ result[t].retry_count = MAX_RETRIES
        /\ PhysicalAttempts(t) = MAX_RETRIES + 1

\* C2: every logical request in progress eventually returns or raises, when
\* each physical attempt and each backoff wait completes
RequestTerminates ==
    \A t \in Tasks : (pc[t] \in {"fetch", "wait"}) ~> Finished(t)

\* a request has finished although the server answered 429 to each of its
\* attempts
FinishedUnderConstant429 ==
    \E t \in Tasks :
        /\ Finished(t)
        /\ Len(statuses[t]) >= 2
        /\ All429(statuses[t])

\* C3: on a fresh client, k answers of 429 followed by a status s other than
\* 429 give status_code s, retry_count k, was_rate_limited false, and
\* metrics of k rate limits and k retries
RetriedThenAnswered ==
    \A t \in Tasks :
        (/\ requests = 1
         /\ pc[t] = "returned"
         /\ Last(statuses[t]) # 429)
        => LET k == Len(statuses[t]) - 1
           IN  /\ All429(SubSeq(statuses[t], 1, k))
               /\ result[t].status_code = Last(statuses[t])
               /\ result[t].retry_count = k
               /\ ~result[t].was_rate_limited
               /\ metrics.total_rate_limited = k
               /\ metrics.total_retries = k

\* scenario A: one 429, then 200
ScenarioA ==
    \E t \in Tasks :
        /\ requests = 1
        /\ pc[t] = "returned"
        /\ statuses[t] = <<429, 200>>
        /\ result[t].retry_count = 1

\* C4: on a fresh client, a request answered 429 at every attempt ends with
\* status_code 429 and was_rate_limited true after at most
\* CIRCUIT_BREAKER_THRESHOLD physical attempts
Constant429Ends ==
    \A t \in Tasks :
        (requests = 1 /\ pc[t] # "idle" /\ All429(statuses[t]))
        => /\ PhysicalAttempts(t) <= CIRCUIT_BREAKER_THRESHOLD
           /\ pc[t] = "returned"
              => /\ result[t].status_code = 429
                 /\ result[t].was_rate_limited

\* scenario B: the first request of the client, every attempt answered 429,
\* has returned
ScenarioB ==
    \E t \in Tasks :
        /\ requests = 1
        /\ pc[t] = "returned"
        /\ All429(statuses[t])
        /\ result[t].status_code = 429

\* C5: a request whose last attempt was answered has returned an envelope,
\* not raised, and a returned envelope has was_rate_limited true exactly
\* when its status_code is 429
RateLimitIsAResult ==
    \A t \in Tasks :
        /\ (Finished(t) /\ Len(statuses[t]) = PhysicalAttempts(t))
           => pc[t] # "raised"
        /\ pc[t] = "returned"
           => (result[t].was_rate_limited <=> result[t].status_code = 429)

\* the breaker has tripped on a request that still had retry budget
BreakerTripped ==
    \E t \in Tasks :
        /\ pc[t] = "returned"
        /\ result[t].status_code = 429
        /\ result[t].was_rate_limited
        /\ result[t].retry_count < MAX_RETRIES
        /\ consecutive_rate_limits >= CIRCUIT_BREAKER_THRESHOLD

MaxBackoffIsLargestWait ==
    Quiescent => metrics.max_backoff_seconds = maxWaitApplied

\* C9: total_retries <= total_rate_limited * MAX_RETRIES and
\* max_backoff_seconds <= MAX_BACKOFF_SECONDS
MetricsBounds ==
    /\ metrics.total_retries <= metrics.total_rate_limited * MAX_RETRIES
    /\ metrics.max_backoff_seconds <= MAX_BACKOFF_SECONDS * Scale

\* a retry has been recorded
RetriesRecorded ==
    /\ metrics.total_retries >= MAX_RETRIES
    /\ metrics.total_rate_limited >= MAX_RETRIES

\* C10: no step decreases total_rate_limited, total_retries,
\* total_backoff_seconds or max_backoff_seconds
CountersNeverDecrease ==
    [][/\ metrics'.total_rate_limited >= metrics.total_rate_limited
       /\ metrics'.total_retries >= metrics.total_retries
       /\ metrics'.total_backoff_seconds >= metrics.total_backoff_seconds
       /\ metrics'.max_backoff_seconds >= metrics.max_backoff_seconds]_vars

\* the parsed Retry-After value of the 429 whose backoff is computed
ProbeHint == get_retry_after_seconds(probe.headers)

\* the factor the computed base is multiplied by, in tenths
ProbeFactor == IF probe.enable_jitter THEN probe.jitter ELSE Scale

\* C11: the backoff computed on a 429 is never negative
BackoffNeverNegative ==
    (probe.op = "backoff" /\ probe.steps >= 1) => probe.wait >= 0

\* C12: for every attempt index and every Retry-After value the computed
\* backoff is at most MAX_BACKOFF_SECONDS * 1.2
BackoffUnderJitteredCeiling ==
    (probe.op = "backoff" /\ probe.steps >= 1)
    => probe.wait * 10 <= MAX_BACKOFF_SECONDS * Scale * 12

\* a backoff at the jittered ceiling, computed from a Retry-After of 99999
HugeHintCapped ==
    /\ probe.op = "backoff"
    /\ probe.steps >= 1
    /\ ProbeHint = Some(99999)
    /\ probe.wait * 10 = MAX_BACKOFF_SECONDS * Scale * 12

\* C13: with jitter enabled (the default) the computed backoff never exceeds
\* MAX_BACKOFF_SECONDS
BackoffUnderCeiling ==
    (probe.op = "backoff" /\ probe.steps >= 1
        /\ probe.enable_jitter = ENABLE_JITTER)
    => probe.wait <= MAX_BACKOFF_SECONDS * Scale

\* C14: with jitter disabled and no Retry-After, the backoff does not
\* decrease from one attempt index to the next and is MAX_BACKOFF_SECONDS
\* once INITIAL_BACKOFF_SECONDS * BACKOFF_MULTIPLIER^n reaches the ceiling
BackoffMonotonic ==
    (probe.op = "backoff" /\ probe.steps >= 1
        /\ ~probe.enable_jitter /\ ~ProbeHint.some)
    => /\ probe.steps = 2 => probe.prev <= probe.wait
       /\ INITIAL_BACKOFF_SECONDS * Pow(BACKOFF_MULTIPLIER, probe.attempt)
            >= MAX_BACKOFF_SECONDS
          => probe.wait = MAX_BACKOFF_SECONDS * Scale
       /\ INITIAL_BACKOFF_SECONDS * Pow(BACKOFF_MULTIPLIER, probe.attempt)
            < MAX_BACKOFF_SECONDS
          => probe.wait < MAX_BACKOFF_SECONDS * Scale

\* the backoff has just saturated: 16 s at index 4, 30 s at index 5
BackoffSaturates ==
    /\ probe.op = "backoff"
    /\ probe.steps = 2
    /\ ~probe.enable_jitter
    /\ ~ProbeHint.some
    /\ probe.attempt = 5
    /\ probe.prev = 16 * Scale
    /\ probe.wait = MAX_BACKOFF_SECONDS * Scale

\* C15: with a parseable Retry-After value h the wait is min(h,
\* MAX_BACKOFF_SECONDS) times the factor, whatever the attempt index; the
\* exponential formula is used only without one
HintTakesPrecedence ==
    (probe.op = "backoff" /\ probe.steps >= 1)
    => LET h == ProbeHint.val
           capped == IF h <= MAX_BACKOFF_SECONDS THEN h
                     ELSE MAX_BACKOFF_SECONDS
           doubled == INITIAL_BACKOFF_SECONDS
                        * Pow(BACKOFF_MULTIPLIER, probe.attempt)
       IN  IF ProbeHint.some
           THEN probe.wait = capped * ProbeFactor
           ELSE probe.wait =
                    (IF doubled <= MAX_BACKOFF_SECONDS THEN doubled
                     ELSE MAX_BACKOFF_SECONDS) * ProbeFactor

\* a Retry-After of 5 s at attempt index 3 gives 5 s times the factor, not
\* the 8 s of the exponential formula
HintUsedAtLaterAttempt ==
    /\ probe.op = "backoff"
    /\ probe.steps = 2
    /\ probe.attempt = 3
    /\ ProbeHint = Some(5)
    /\ probe.wait = 5 * ProbeFactor

\* a text of one or more digits: non-negative delta-seconds
IsDeltaSeconds(cs) == cs # <<>> /\ \A i \in 1..Len(cs) : IsDigit(cs[i])

\* C16: get_retry_after_seconds returns the number for non-negative
\* delta-seconds, max(0, date - now) for an HTTP-date, and None for a missing
\* header, an empty value, a negative value or any other text
ParserResults ==
    (probe.op = "parse" /\ probe.done
        /\ (probe.headers.has
                => probe.headers.name \in {"Retry-After", "retry-after"}))
    => LET v == probe.headers.value
       IN  IF ~probe.headers.has THEN probe.out = None
           ELSE IF v.kind = "date"
           THEN probe.out = Some(IF v.secs > 0 THEN v.secs ELSE 0)
           ELSE IF IsDeltaSeconds(v.chars)
           THEN probe.out = Some(DigitsValue(v.chars, 0))
           ELSE probe.out = None

\* C17: the value found does not depend on the letter case of the header
\* name: it is the one found under the name Retry-After
HeaderNameCaseInsensitive ==
    (probe.op = "parse" /\ probe.done /\ probe.headers.has)
    => probe.out
        = get_retry_after_seconds(Header("Retry-After", probe.headers.value))

\* the hundreds digit of a status code
StatusClass(status_code) == status_code \div 100

\* C18: for every status in 100..599 the four predicates are the class tests
\* 2xx, 4xx, 5xx and "= 429"; at most one of the first three holds and a
\* rate-limited envelope is a client error
ClassificationExact ==
    (probe.op = "classify" /\ probe.done)
    => /\ probe.success <=> StatusClass(probe.status_code) = 2
       /\ probe.client_error <=> StatusClass(probe.status_code) = 4
       /\ probe.server_error <=> StatusClass(probe.status_code) = 5
       /\ probe.rate_limited <=> probe.status_code = 429
       /\ Cardinality({ b \in {"s", "c", "e"} :
                \/ b = "s" /\ probe.success
                \/ b = "c" /\ probe.client_error
                \/ b = "e" /\ probe.server_error }) <= 1
       /\ probe.rate_limited => probe.client_error

RateLimitedClassified ==
    /\ probe.op = "classify" /\ probe.done
    /\ probe.status_code = 429
    /\ probe.rate_limited /\ probe.client_error
    /\ ~probe.success /\ ~probe.server_error

\* index of the first assertion of the chain whose condition does not hold,
\* 0 when every condition holds
FirstFailing(chain, response) ==
    IF \A i \in 1..Len(chain) : Condition(chain[i], response) THEN 0
    ELSE CHOOSE i \in 1..Len(chain) :
            /\ ~Condition(chain[i], response)
            /\ \A j \in 1..(i - 1) : Condition(chain[j], response)

\* C19: every assertion that holds returns the validator it was called on;
\* the chain fails at its first failing assertion, with no later assertion
\* evaluated, and passes iff every condition holds
ChainFailsFast ==
    probe.op = "validate"
    => LET first == FirstFailing(probe.chain, probe.validator.response)
       IN  /\ probe.state = "failed" => first # 0 /\ probe.evaluated = first
           /\ probe.state = "passed"
                => first = 0 /\ probe.evaluated = Len(probe.chain)
           /\ probe.state = "running"
                => /\ probe.evaluated < Len(probe.chain)
                   /\ first = 0 \/ probe.evaluated < first
           /\ probe.state # "failed" => probe.current = probe.validator

\* a chain whose first assertion holds and whose second fails
FailedAtSecond ==
    /\ probe.op = "validate"
    /\ probe.state = "failed"
    /\ Len(probe.chain) >= 2
    /\ probe.evaluated = 2
    /\ Condition(probe.chain[1], probe.validator.response)

\* C20: a logical request that raised makes no further physical attempt (the
\* task's next attempt is attempt 0 of a new request), and an attempt index
\* only ever grows after a wait that a 429 started
TransportFailureNotRetried ==
    [][\A t \in Tasks :
        /\ pc[t] = "raised"
            => \/ pc'[t] = "raised" /\ attempt'[t] = attempt[t]
                    /\ statuses'[t] = statuses[t]
               \/ pc'[t] = "fetch" /\ attempt'[t] = 0
                    /\ requests' = requests + 1
        /\ attempt'[t] > attempt[t]
            => /\ pc[t] = "wait"
               /\ Len(statuses[t]) = attempt[t] + 1
               /\ Last(statuses[t]) = 429]_vars

\* a retry after two 429s failed at the transport level
RaisedOnRetry ==
    \E t \in Tasks :
        /\ pc[t] = "raised"
        /\ attempt[t] = 2
        /\ statuses[t] = <<429, 429>>

\* number of 429 answers among the statuses q
Count429(q) == Cardinality({ i \in 1..Len(q) : q[i] = 429 })

\* retries the task's logical request has recorded: the ones dispatched and
\* the one whose wait is in progress
RetriesOf(t) ==
    IF pc[t] = "idle" THEN 0
    ELSE attempt[t] + (IF pc[t] = "wait" THEN 1 ELSE 0)

RECURSIVE SumOver(_, _)
SumOver(S, f) ==
    IF S = {} THEN 0
    ELSE LET t == CHOOSE x \in S : TRUE
         IN  f[t] + SumOver(S \ {t}, f)

\* every request made so far is the one request of a different task
OneRequestEach == requests = Cardinality({ t \in Tasks : pc[t] # "idle" })

WaitBlocksOnlyItsRequest ==
    \A t, u \in Tasks :
        (t # u /\ pc[t] = "wait")
        => /\ (Finished(u) /\ requests < MaxRequests) => ENABLED get(u)
           /\ pc[u] = "fetch" => ENABLED Respond(u)

\* a request is still in the wait its 429 started, and the answer of another
\* request has since reset the counter and been returned
ReturnedDuringWait ==
    \E t, u \in Tasks :
        /\ t # u
        /\ pc[t] = "wait"
        /\ statuses[t] = <<429>>
        /\ pc[u] = "returned"
        /\ result[u].status_code = 200
        /\ consecutive_rate_limits = 0

\* C23: the headers sent are the defaults merged with the caller's headers,
\* and a header the caller gives, Content-Type included, is sent with the
\* caller's value
CallerHeadersWin ==
    (probe.op = "headers" /\ probe.done)
    => \A n \in RequestHeaderNames :
            probe.sent[n] = IF probe.headers.dict[n] # Missing
                            THEN probe.headers.dict[n]
                            ELSE DefaultHeaders[n]

\* C24: an envelope is immutable after construction: the envelope a request
\* returns has the fields its constructor call gave it
EnvelopeAsConstructed ==
    \A t \in Tasks :
        pc[t] = "returned"
        => result[t] = ApiResponse(result[t].status_code, result[t].headers,
                                   result[t].retry_count)

\* C25: a 429 that brings the counter to CIRCUIT_BREAKER_THRESHOLD or more
\* makes its request return that envelope, flagged, at once, whatever retry
\* budget is left: no backoff is computed or waited, total_retries and
\* total_backoff_seconds keep their values, and no attempt follows
BreakerBeforeBudget ==
    [][\A t \in Tasks :
        (/\ statuses'[t] = Append(statuses[t], 429)
         /\ consecutive_rate_limits' >= CIRCUIT_BREAKER_THRESHOLD)
        => /\ pc'[t] = "returned"
           /\ result'[t].status_code = 429
           /\ result'[t].was_rate_limited
           /\ result'[t].retry_count = attempt[t]
           /\ attempt'[t] = attempt[t]
           /\ backoff_seconds'[t] = 0
           /\ maxWaitApplied' = maxWaitApplied
           /\ metrics'.total_retries = metrics.total_retries
           /\ metrics'.total_backoff_seconds = metrics.total_backoff_seconds
           /\ retriesIssued' = retriesIssued]_vars

\* the breaker has ended a request on its first attempt, with its whole
\* retry budget left
BreakerOnFirstAttempt ==
    \E t \in Tasks :
        /\ pc[t] = "returned"
        /\ statuses[t] = <<429>>
        /\ result[t].retry_count = 0
        /\ result[t].was_rate_limited
        /\ consecutive_rate_limits = CIRCUIT_BREAKER_THRESHOLD

\* the step takes an answer of status s for some request
Answered(s) ==
    \E t \in Tasks : statuses'[t] = Append(statuses[t], s)

\* C26: the counter starts at 0; every answer other than 429, on a first
\* attempt or on a retry, sets it to 0 and leaves the metrics as they are;
\* every 429 adds 1 to it; nothing else changes it: it is the number of 429s
\* since the last answer that was not one
CounterCountsConsecutive429s ==
    /\ consecutive_rate_limits = 0
    /\ [][/\ \A s \in Statuses \ {429} :
                Answered(s)
                => consecutive_rate_limits' = 0 /\ metrics' = metrics
          /\ Answered(429)
                => consecutive_rate_limits' = consecutive_rate_limits + 1
          /\ (\A s \in Statuses : ~Answered(s))
                => consecutive_rate_limits' = consecutive_rate_limits]_vars

\* a retry answered 500 has reset the counter that two 429s had raised
ResetOnRetry ==
    \E t \in Tasks :
        /\ pc[t] = "returned"
        /\ statuses[t] = <<429, 429, 500>>
        /\ consecutive_rate_limits = 0
        /\ metrics.total_rate_limited >= 2

\* C27: a new collector has all counters 0; record_rate_limit(b) adds 1 to
\* total_rate_limited and b to total_backoff_seconds, makes
\* max_backoff_seconds the larger of its value and b, appends one timestamp
\* and leaves total_retries; record_retry() adds 1 to total_retries and
\* leaves every other field
RecordEffectsExact ==
    probe.op = "metrics"
    => LET m == probe.m
           prev == probe.prev
       IN  /\ probe.last = "new"
                => /\ m.total_rate_limited = 0
                   /\ m.total_retries = 0
                   /\ m.total_backoff_seconds = 0
                   /\ m.max_backoff_seconds = 0
                   /\ m.rate_limit_timestamps = <<>>
           /\ probe.last = "record_rate_limit"
                => /\ m.total_rate_limited = prev.total_rate_limited + 1
                   /\ m.total_backoff_seconds
                        = prev.total_backoff_seconds + probe.b
                   /\ m.max_backoff_seconds >= prev.max_backoff_seconds
                   /\ m.max_backoff_seconds >= probe.b
                   /\ m.max_backoff_seconds
                        \in {prev.max_backoff_seconds, probe.b}
                   /\ Len(m.rate_limit_timestamps)
                        = Len(prev.rate_limit_timestamps) + 1
                   /\ SubSeq(m.rate_limit_timestamps, 1,
                             Len(prev.rate_limit_timestamps))
                        = prev.rate_limit_timestamps
                   /\ m.total_retries = prev.total_retries
           /\ probe.last = "record_retry"
                => /\ m.total_retries = prev.total_retries + 1
                   /\ m.total_rate_limited = prev.total_rate_limited
                   /\ m.total_backoff_seconds = prev.total_backoff_seconds
                   /\ m.max_backoff_seconds = prev.max_backoff_seconds
                   /\ m.rate_limit_timestamps = prev.rate_limit_timestamps

\* a rate limit recorded with a backoff below the largest so far, on a
\* collector that has recorded a retry
SmallerBackoffRecorded ==
    /\ probe.op = "metrics"
    /\ probe.last = "record_rate_limit"
    /\ probe.b > 0
    /\ probe.b < probe.prev.max_backoff_seconds
    /\ probe.prev.total_retries >= 1

\* C28: a new logical request leaves the counter as the earlier requests of
\* the client left it; while the counter is at CIRCUIT_BREAKER_THRESHOLD or
\* more, a request whose first attempt is answered 429 returns at once with
\* retry_count 0 and was_rate_limited true, and an answer other than 429
\* ends this
SessionLevelCounter ==
    [][/\ requests' = requests + 1
            => consecutive_rate_limits' = consecutive_rate_limits
       /\ \A t \in Tasks :
            consecutive_rate_limits >= CIRCUIT_BREAKER_THRESHOLD
            => /\ statuses'[t] = <<429>>
                    => /\ pc'[t] = "returned"
                       /\ result'[t].status_code = 429
                       /\ result'[t].retry_count = 0
                       /\ result'[t].was_rate_limited
                       /\ consecutive_rate_limits'
                            >= CIRCUIT_BREAKER_THRESHOLD
               /\ (statuses'[t] # statuses[t] /\ statuses'[t] # <<>>
                   /\ Last(statuses'[t]) # 429)
                    => consecutive_rate_limits' = 0]_vars

\* the third request of a session met a breaker the first two had tripped,
\* and returned from its first attempt
LaterRequestFailsFast ==
    \E t \in Tasks :
        /\ requests = MaxSessionRequests
        /\ pc[t] = "returned"
        /\ statuses[t] = <<429>>
        /\ result[t].retry_count = 0
        /\ result[t].was_rate_limited
        /\ consecutive_rate_limits > CIRCUIT_BREAKER_THRESHOLD

\* C29: no retry is dispatched while the shared counter is at
\* CIRCUIT_BREAKER_THRESHOLD or more: a request whose wait ends after other
\* requests' 429s have tripped the breaker does not send its retry
NoRetryWhileBreakerOpen ==
    [][\A t \in Tasks :
        (pc[t] = "wait" /\ pc'[t] = "fetch")
        => consecutive_rate_limits < CIRCUIT_BREAKER_THRESHOLD]_vars

\* C30: a physical attempt that fails at the transport level leaves
\* consecutive_rate_limits and every metric as they were just before it
TransportFailureKeepsState ==
    [][\A t \in Tasks :
        (pc[t] = "fetch" /\ pc'[t] = "raised")
        => /\ consecutive_rate_limits' = consecutive_rate_limits
           /\ metrics' = metrics]_vars

\* the only request of the client raised on its retry: the 429 and the retry
\* recorded before it are still recorded and the counter still counts the 429
RaisedWithRecordsKept ==
    \E t \in Tasks :
        /\ requests = 1
        /\ pc[t] = "raised"
        /\ statuses[t] = <<429>>
        /\ consecutive_rate_limits = 1
        /\ metrics.total_rate_limited = 1
        /\ metrics.total_retries = 1

====
